---- MODULE Spec2Model ----
(***************************************************************************)
(* Review workflow of the QA review website: the qa_reviews tables, the    *)
(* browser sessions that carry the logged-in reviewer, and the handlers of *)
(* app/routes/api.py together with the ReviewService and                   *)
(* ProductionUpdateService calls they make.  Every handler runs in one     *)
(* database transaction and is one action of the model.                    *)
(***************************************************************************)
EXTENDS Integers, Sequences, FiniteSets, TLC

(***************************************************************************)
(* Bounds of the model.                                                    *)
(***************************************************************************)
\* committed transactions explored: logins, review actions and re-review requests
MaxOps == 4

\* the reviewers table is seeded with the pre-approved emails
NumReviewers == 2

VARIABLES
    queue,         \* qa_reviews.response_queue: id -> row
    reviews,       \* qa_reviews.reviews: sequence of rows, id = position
    audit,         \* qa_reviews.review_audit_log, in insertion order
    sessions,      \* qa_reviews.review_sessions: sequence of rows, id = position
    reviewers,     \* qa_reviews.reviewers: id -> row (the three counters)
    rereq,         \* qa_reviews.rereview_requests, in insertion order
    prod_updates,  \* qa_reviews.production_updates, in insertion order
    prod,          \* the production content store: table name -> rows
    cookies,       \* the Flask sessions browsers hold: {[user, review_session_id]}
    shown,         \* the item the review form in each reviewer's browser shows
    call,          \* the update_production call in progress: position and locals
    txns,          \* the requests in progress, one per browser tab: position and locals
    last           \* the last request handled and its outcome

vars == <<queue, reviews, audit, sessions, reviewers, rereq, prod_updates, prod,
          cookies, shown, call, txns, last>>

NULL == 0
Reviewers == 1..NumReviewers

(***************************************************************************)
(* Request payloads.  segment_scores maps a segment id to a score and an   *)
(* optional suggestion ("" when the key is absent).                        *)
(***************************************************************************)
ScoresSuggest == [s \in {"S1"} |-> [score |-> 5, suggestion |-> "New text"]]
ScoresPlain == [s \in {"S1", "S4"} |-> [score |-> 3, suggestion |-> ""]]

ReviewInputs ==
    { [segment_scores |-> ScoresSuggest, overall_notes |-> "n1"],
      [segment_scores |-> ScoresPlain, overall_notes |-> "n2"] }

\* a flag is sent with one payload: what it adds is the reason
FlagInputs == { [segment_scores |-> ScoresPlain, overall_notes |-> "n2"] }

FlagReasons == {"", "wrong"}

(***************************************************************************)
(* The queue as the upstream generator left it: every item pending.        *)
(***************************************************************************)
QueueFixture ==
    << [intent |-> "interaction",
        slots |-> [drug_a |-> "X", drug_b |-> "Y"],
        segments |-> <<[id |-> "S1", text |-> "orig S1"],
                       [id |-> "S2", text |-> "orig S2"]>>,
        status |-> "pending"],
       [intent |-> "pregnancy",
        slots |-> [drug |-> "Z"],
        segments |-> <<[id |-> "S1", text |-> "orig S1"]>>,
        status |-> "pending"] >>

Items == DOMAIN QueueFixture

\* public.document_ddi_pairs holds the X/Y pair, or holds nothing yet
DdiRow ==
    [subject_drug |-> "X", object_drug |-> "Y", effect_s1 |-> "old S1",
     guidance |-> "old S2", effect_complete |-> "old S3"]

ProdFixtures ==
    { [t \in {"public.document_ddi_pairs", "content.drug_dosing"} |->
          IF t = "public.document_ddi_pairs" THEN rows ELSE << >>] :
      rows \in { <<DdiRow>>, << >> } }

NoRequest ==
    [op |-> "none", reviewer |-> NULL, sid |-> NULL,
     item |-> NULL, err |-> "none", rid |-> NULL]

\* no browser has loaded a review form yet
NothingShown == [r \in Reviewers |-> NULL]

\* the browser tabs of a reviewer that send requests at the same time
Tabs == {1, 2}

\* a tab with no request in progress
NoTxn ==
    [pc |-> "idle", user |-> NULL, review_session_id |-> NULL, item |-> NULL,
     inp |-> << >>, reviewer_read |-> NULL, session_read |-> NULL]

NoTxns == [t \in Tabs |-> NoTxn]

\* no update_production call is in progress
NoCall ==
    [pc |-> "idle", item |-> NULL, segment_scores |-> << >>, reviewer_id |-> NULL,
     lookup_values |-> << >>, original_fields |-> << >>, updated_fields |-> << >>,
     outcome |-> "none", result |-> << >>]

Init ==
    /\ queue = QueueFixture
    /\ reviews = << >>
    /\ audit = << >>
    /\ sessions = << >>
    /\ reviewers = [r \in Reviewers |->
                      [total_reviews_submitted |-> 0,
                       total_reviews_flagged |-> 0,
                       total_drafts_saved |-> 0]]
    /\ rereq = << >>
    /\ prod_updates = << >>
    /\ prod \in ProdFixtures
    /\ cookies = {}
    /\ shown = NothingShown
    /\ call = NoCall
    /\ txns = NoTxns
    /\ last = NoRequest

(***************************************************************************)
(* The clock, the bound and the record of the last request.                *)
(***************************************************************************)
\* datetime.utcnow(): the model keeps of a timestamp only that it is set
Now == NULL + 1

\* transactions committed so far
Committed == Len(sessions) + Len(audit) + Len(rereq)

\* what `last` records of a request made with the Flask session c: of a
\* request that failed, only the handler and the error
Request(op, c, i, err, rid) ==
    IF err = "none"
    THEN [op |-> op, reviewer |-> c.user, sid |-> c.review_session_id,
          item |-> i, err |-> err, rid |-> rid]
    ELSE [op |-> op, reviewer |-> NULL, sid |-> NULL,
          item |-> NULL, err |-> err, rid |-> NULL]

(***************************************************************************)
(* Constraints of the tables (models.py): a violated one raises            *)
(* IntegrityError at flush or commit.                                      *)
(***************************************************************************)
\* the table without its unique constraint
UniqueOk_Dropped(rv, new) == TRUE

\* a constraint that allows one Review per item and version, whoever wrote it
UniqueOk_PerItem(rv, new) ==
    \A k \in DOMAIN rv :
        ~ ( /\ rv[k].response_queue_id = new.response_queue_id
            /\ rv[k].version = new.version )

\* UniqueConstraint('response_queue_id', 'reviewer_id', 'version')
UniqueOk(rv, new) ==
    \A k \in DOMAIN rv :
        ~ ( /\ rv[k].response_queue_id = new.response_queue_id
            /\ rv[k].reviewer_id = new.reviewer_id
            /\ rv[k].version = new.version )

\* reviews.response_queue_id is a foreign key, and the triple is unique
ReviewInsertOk(rv, new) ==
    /\ new.response_queue_id \in DOMAIN queue
    /\ new.reviewer_id \in DOMAIN reviewers
    /\ UniqueOk(rv, new)

\* review_audit_log.review_id and reviewer_id are nullable=False
AuditInsertOk(entry) ==
    /\ entry.review_id # NULL
    /\ entry.reviewer_id # NULL

\* the session counter left as it was
BumpSession_Forgotten(sid, counter) == sessions

\* every action counted as a completed review
BumpSession_Completed(sid, counter) ==
    IF sid \in DOMAIN sessions
    THEN [sessions EXCEPT ![sid].reviews_completed = @ + 1]
    ELSE sessions

\* session = db.session.get(ReviewSession, session_id); if session: session.<counter> += 1
BumpSession(sid, counter) ==
    IF sid \in DOMAIN sessions
    THEN [sessions EXCEPT ![sid][counter] = @ + 1]
    ELSE sessions

\* the reviewer's all-time counter raised by two
BumpReviewer_Twice(r, counter) == [reviewers EXCEPT ![r][counter] = @ + 2]

\* the reviewer's all-time counter left as it was
BumpReviewer_Forgotten(r, counter) == reviewers

\* reviewer = db.session.get(Reviewer, reviewer_id); reviewer.<counter> += 1
BumpReviewer(r, counter) == [reviewers EXCEPT ![r][counter] = @ + 1]

\* a Review row numbered after the rows the pair already has
NewReview_NextVersion(i, r, inp, reason, st, submitted) ==
    [response_queue_id |-> i, reviewer_id |-> r,
     version |-> 1 + Cardinality({ k \in DOMAIN reviews :
                                     /\ reviews[k].response_queue_id = i
                                     /\ reviews[k].reviewer_id = r }),
     is_current |-> TRUE, segment_scores |-> inp.segment_scores,
     overall_notes |-> inp.overall_notes, flag_reason |-> reason,
     status |-> st, submitted_at |-> submitted]

\* a Review row that never gets its submitted_at
NewReview_Unstamped(i, r, inp, reason, st, submitted) ==
    [response_queue_id |-> i, reviewer_id |-> r, version |-> 1,
     is_current |-> TRUE, segment_scores |-> inp.segment_scores,
     overall_notes |-> inp.overall_notes, flag_reason |-> reason,
     status |-> st, submitted_at |-> NULL]

\* a Review row as the constructor fills it: version and is_current take
\* their column defaults
NewReview(i, r, inp, reason, st, submitted) ==
    [response_queue_id |-> i, reviewer_id |-> r, version |-> 1,
     is_current |-> TRUE, segment_scores |-> inp.segment_scores,
     overall_notes |-> inp.overall_notes, flag_reason |-> reason,
     status |-> st, submitted_at |-> submitted]

AuditEntry(rid, r, action, prev, new) ==
    [review_id |-> rid, reviewer_id |-> r, action |-> action,
     previous_status |-> prev, new_status |-> new]

(***************************************************************************)
(* Login and logout (auth.py).  `old` is the Flask session the browser     *)
(* held before the login, or {} for a browser that held none.  A login or  *)
(* logout that raises leaves every table and the browser as they were: a   *)
(* stuttering step.                                                        *)
(***************************************************************************)
callback(old, r) ==
    /\ Committed < MaxOps
    /\ sessions' = Append(sessions,
            [reviewer_id |-> r, session_start |-> Now, session_end |-> NULL,
             reviews_completed |-> 0, reviews_flagged |-> 0,
             reviews_drafted |-> 0, reviews_skipped |-> 0])
    /\ cookies' = (cookies \ old) \cup
            {[user |-> r, review_session_id |-> Len(sessions) + 1]}
    /\ last' = [op |-> "login", reviewer |-> r, sid |-> Len(sessions) + 1,
                item |-> NULL, err |-> "none", rid |-> NULL]
    /\ UNCHANGED <<queue, reviews, audit, reviewers, rereq, prod_updates, prod, shown, call, txns>>

logout(c) ==
    /\ c \in cookies
    /\ Committed < MaxOps
    /\ LET sid == c.review_session_id
           open == sid \in DOMAIN sessions /\ sessions[sid].session_end = NULL
       IN sessions' = IF open
                      THEN [sessions EXCEPT ![sid].session_end = Now]
                      ELSE sessions
    /\ cookies' = cookies \ {c}
    /\ last' = Request("logout", c, NULL, "none", NULL)
    /\ UNCHANGED <<queue, reviews, audit, reviewers, rereq, prod_updates, prod, shown, call, txns>>

(***************************************************************************)
(* The review actions (routes/api.py calling ReviewService).               *)
(***************************************************************************)
skip_response(c, i, dbUp) ==
    LET r == c.user
        sid == c.review_session_id
        entry == AuditEntry(NULL, r, "skipped", "NULL", "NULL")
        err == IF ~dbUp THEN "OperationalError"
               ELSE IF ~AuditInsertOk(entry) THEN "IntegrityError"
               ELSE "none"
    IN /\ c \in cookies
       /\ Committed < MaxOps
       /\ last' = Request("skip", c, i, err, NULL)
       /\ IF err = "none"
          THEN /\ sessions' = BumpSession(sid, "reviews_skipped")
               /\ audit' = Append(audit, entry)
          ELSE UNCHANGED <<sessions, audit>>
       /\ UNCHANGED <<queue, reviews, reviewers, rereq, prod_updates, prod, cookies, shown, call, txns>>

\* the route accepting a flag without a reason
MissingFlagData_Ignored(reason) == FALSE

\* if not response_id or not flag_reason or not session_id: 400 'Missing data'
MissingFlagData(reason) == reason = ""

flag_response(c, i, reason, inp, dbUp) ==
    LET r == c.user
        sid == c.review_session_id
        rid == Len(reviews) + 1
        review == NewReview(i, r, inp, reason, "flagged", NULL)
        entry == AuditEntry(rid, r, "flagged", "pending", "flagged")
        err == IF MissingFlagData(reason) THEN "MissingData"
               ELSE IF ~dbUp THEN "OperationalError"
               ELSE IF ~ReviewInsertOk(reviews, review) THEN "IntegrityError"
               ELSE IF ~AuditInsertOk(entry) THEN "IntegrityError"
               ELSE "none"
    IN /\ c \in cookies
       /\ Committed < MaxOps
       /\ last' = Request("flag", c, i, err, IF err = "none" THEN rid ELSE NULL)
       /\ IF err = "none"
          THEN /\ reviews' = Append(reviews, review)
               /\ queue' = [queue EXCEPT ![i].status = "flagged"]
               /\ sessions' = BumpSession(sid, "reviews_flagged")
               /\ reviewers' = BumpReviewer(r, "total_reviews_flagged")
               /\ audit' = Append(audit, entry)
          ELSE UNCHANGED <<reviews, queue, sessions, reviewers, audit>>
       /\ UNCHANGED <<rereq, prod_updates, prod, cookies, shown, call, txns>>

\* the draft looked up by reviewer alone, whatever its item
ExistingDraft_AnyItem(i, r) ==
    LET ds == { k \in DOMAIN reviews :
                  /\ reviews[k].reviewer_id = r
                  /\ reviews[k].status = "draft" }
    IN IF ds = {} THEN NULL ELSE CHOOSE k \in ds : \A m \in ds : k <= m

\* the lookup that never finds the draft
ExistingDraft_Missed(i, r) == NULL

\* Review.query.filter_by(response_queue_id, reviewer_id, status='draft').first()
ExistingDraft(i, r) ==
    LET ds == { k \in DOMAIN reviews :
                  /\ reviews[k].response_queue_id = i
                  /\ reviews[k].reviewer_id = r
                  /\ reviews[k].status = "draft" }
    IN IF ds = {} THEN NULL ELSE CHOOSE k \in ds : \A m \in ds : k <= m

save_draft(c, i, inp, dbUp) ==
    LET r == c.user
        sid == c.review_session_id
        existing_draft == ExistingDraft(i, r)
        rid == IF existing_draft # NULL THEN existing_draft ELSE Len(reviews) + 1
        review == NewReview(i, r, inp, "", "draft", NULL)
        entry == AuditEntry(rid, r, "saved_draft", "pending", "draft")
        err == IF ~dbUp THEN "OperationalError"
               ELSE IF existing_draft = NULL /\ ~ReviewInsertOk(reviews, review)
                    THEN "IntegrityError"
               ELSE IF ~AuditInsertOk(entry) THEN "IntegrityError"
               ELSE "none"
    IN /\ c \in cookies
       /\ Committed < MaxOps
       /\ last' = Request("save_draft", c, i, err, IF err = "none" THEN rid ELSE NULL)
       /\ IF err = "none"
          THEN /\ reviews' =
                    IF existing_draft # NULL
                    THEN [reviews EXCEPT
                            ![rid].segment_scores = inp.segment_scores,
                            ![rid].overall_notes = inp.overall_notes]
                    ELSE Append(reviews, review)
               /\ queue' = [queue EXCEPT ![i].status = "draft"]
               /\ sessions' = BumpSession(sid, "reviews_drafted")
               /\ reviewers' = BumpReviewer(r, "total_drafts_saved")
               /\ audit' = Append(audit, entry)
          ELSE UNCHANGED <<reviews, queue, sessions, reviewers, audit>>
       /\ UNCHANGED <<rereq, prod_updates, prod, cookies, shown, call, txns>>

submit_review(c, i, inp, dbUp) ==
    LET r == c.user
        sid == c.review_session_id
        rid == Len(reviews) + 1
        review == NewReview(i, r, inp, "", "submitted", Now)
        entry == AuditEntry(rid, r, "submitted", "pending", "submitted")
        err == IF ~dbUp THEN "OperationalError"
               ELSE IF ~ReviewInsertOk(reviews, review) THEN "IntegrityError"
               ELSE IF ~AuditInsertOk(entry) THEN "IntegrityError"
               ELSE "none"
    IN /\ c \in cookies
       /\ Committed < MaxOps
       /\ last' = Request("submit", c, i, err, IF err = "none" THEN rid ELSE NULL)
       /\ IF err = "none"
          THEN /\ reviews' = Append(reviews, review)
               /\ queue' = [queue EXCEPT ![i].status = "submitted"]
               /\ sessions' = BumpSession(sid, "reviews_completed")
               /\ reviewers' = BumpReviewer(r, "total_reviews_submitted")
               /\ audit' = Append(audit, entry)
          ELSE UNCHANGED <<reviews, queue, sessions, reviewers, audit>>
       /\ UNCHANGED <<rereq, prod_updates, prod, cookies, shown, call, txns>>

\* the ownership check left out
RereviewError_NoOwnerCheck(c, review_id, reason, dbUp) ==
    IF reason = "" THEN "MissingData"
    ELSE IF ~dbUp THEN "OperationalError"
    ELSE IF review_id \notin DOMAIN reviews THEN "NotFound"
    ELSE IF reviews[review_id].status # "submitted" THEN "BadState"
    ELSE "none"

\* the status check left out
RereviewError_AnyStatus(c, review_id, reason, dbUp) ==
    IF reason = "" THEN "MissingData"
    ELSE IF ~dbUp THEN "OperationalError"
    ELSE IF review_id \notin DOMAIN reviews THEN "NotFound"
    ELSE IF reviews[review_id].reviewer_id # c.user THEN "Forbidden"
    ELSE "none"

\* the checks of the route in their order: 400 for missing data, 404 for an
\* unknown Review, 403 for a Review of another reviewer, 400 for a Review
\* that is not submitted
RereviewError(c, review_id, reason, dbUp) ==
    IF reason = "" THEN "MissingData"
    ELSE IF ~dbUp THEN "OperationalError"
    ELSE IF review_id \notin DOMAIN reviews THEN "NotFound"
    ELSE IF reviews[review_id].reviewer_id # c.user THEN "Forbidden"
    ELSE IF reviews[review_id].status # "submitted" THEN "BadState"
    ELSE "none"

\* a request that does not name its queue item
NewRereviewRequest_Unlinked(i, review_id, r, reason) ==
    [response_queue_id |-> NULL, original_review_id |-> review_id,
     requested_by |-> r, reason |-> reason,
     status |-> "approved", approved_by |-> r]

\* a request left waiting for an approval
NewRereviewRequest_Pending(i, review_id, r, reason) ==
    [response_queue_id |-> i, original_review_id |-> review_id,
     requested_by |-> r, reason |-> reason,
     status |-> "pending", approved_by |-> NULL]

\* RereviewRequest(..., status='approved', approved_by=current_user.id)
NewRereviewRequest(i, review_id, r, reason) ==
    [response_queue_id |-> i, original_review_id |-> review_id,
     requested_by |-> r, reason |-> reason,
     status |-> "approved", approved_by |-> r]

request_rereview(c, review_id, reason, dbUp) ==
    LET r == c.user
        found == review_id \in DOMAIN reviews
        err == RereviewError(c, review_id, reason, dbUp)
        i == IF found THEN reviews[review_id].response_queue_id ELSE NULL
    IN /\ c \in cookies
       /\ Committed < MaxOps
       /\ last' = Request("request_rereview", c, i, err, review_id)
       /\ IF err = "none"
          THEN /\ rereq' = Append(rereq, NewRereviewRequest(i, review_id, r, reason))
               /\ queue' = [queue EXCEPT ![i].status = "pending"]
               /\ reviews' = [reviews EXCEPT ![review_id].is_current = FALSE]
          ELSE UNCHANGED <<rereq, queue, reviews>>
       /\ UNCHANGED <<audit, sessions, reviewers, prod_updates, prod, cookies, shown, call, txns>>

(***************************************************************************)
(* ProductionUpdateService: what update_production would do for an item   *)
(* and the scores of a review, against the production store as it is.      *)
(***************************************************************************)
\* a Python None in a text column or slot
None == "<None>"

INTENT_TABLE_MAPPING ==
    [interaction |->
        [table |-> "public.document_ddi_pairs",
         lookup_fields |-> <<"subject_drug", "object_drug">>,
         segment_field_mapping |->
            [S1 |-> "effect_s1", S2 |-> "guidance",
             S3 |-> "effect_complete", S4 |-> None]],
     dosing |->
        [table |-> "content.drug_dosing",
         lookup_fields |-> <<"drug_id", "indication">>,
         segment_field_mapping |->
            [S1 |-> "dose_value", S2 |-> "frequency",
             S3 |-> "special_considerations", S4 |-> None]]]

\* field.replace('drug_id', 'drug').replace('subject_drug', 'drug_a')
\*      .replace('object_drug', 'drug_b'), on the lookup fields of the mapping
SlotKey(field) ==
    CASE field = "drug_id" -> "drug"
      [] field = "subject_drug" -> "drug_a"
      [] field = "object_drug" -> "drug_b"
      [] OTHER -> field

\* dict.get(key): None when the key is absent
Get(d, key) == IF key \in DOMAIN d THEN d[key] ELSE None

\* lookup_values[field] = response_queue.slots.get(slot_key)
LookupValues(item, mapping) ==
    [f \in { mapping.lookup_fields[k] : k \in DOMAIN mapping.lookup_fields } |->
        Get(item.slots, SlotKey(f))]

\* a lookup in which an absent slot matches every row
MatchingRows_NoneMatchesAll(store, mapping, lookup_values) ==
    { k \in DOMAIN store[mapping.table] :
        \A f \in DOMAIN lookup_values :
            \/ lookup_values[f] = None
            \/ store[mapping.table][k][f] = lookup_values[f] }

\* the rows WHERE f1 = :f1 AND f2 = :f2 selects; = NULL selects nothing
MatchingRows(store, mapping, lookup_values) ==
    { k \in DOMAIN store[mapping.table] :
        \A f \in DOMAIN lookup_values :
            /\ lookup_values[f] # None
            /\ store[mapping.table][k][f] = lookup_values[f] }

\* next((s for s in response_queue.segments if s['id'] == segment_id), None)
OriginalSegment(item, segment_id) ==
    LET ks == { k \in DOMAIN item.segments : item.segments[k].id = segment_id }
    IN IF ks = {} THEN None
       ELSE item.segments[CHOOSE k \in ks : \A m \in ks : k <= m].text

\* staging that knows no fallback to the generated text
StagedValue_SuggestionOnly(item, segment_scores, segment_id) ==
    IF segment_scores[segment_id].suggestion # ""
    THEN segment_scores[segment_id].suggestion
    ELSE None

\* staging that falls back to an empty text when the item has no such segment
StagedValue_EmptyFallback(item, segment_scores, segment_id) ==
    IF segment_scores[segment_id].suggestion # ""
    THEN segment_scores[segment_id].suggestion
    ELSE IF OriginalSegment(item, segment_id) = None THEN ""
    ELSE OriginalSegment(item, segment_id)

\* the value update_production stages for a scored segment, None for none
StagedValue(item, segment_scores, segment_id) ==
    IF segment_scores[segment_id].suggestion # ""
    THEN segment_scores[segment_id].suggestion
    ELSE OriginalSegment(item, segment_id)

\* updated_fields: column -> new value
StagedFields(item, mapping, segment_scores) ==
    LET staged == { seg \in DOMAIN segment_scores :
                      /\ Get(mapping.segment_field_mapping, seg) # None
                      /\ StagedValue(item, segment_scores, seg) # None }
        cols == { mapping.segment_field_mapping[seg] : seg \in staged }
    IN [col \in cols |->
          StagedValue(item, segment_scores,
              CHOOSE seg \in staged : mapping.segment_field_mapping[seg] = col)]

\* how update_production ends when nothing interleaves and the store is up
ReconcileOutcome(store, item, segment_scores) ==
    IF item.intent \notin DOMAIN INTENT_TABLE_MAPPING THEN "no_mapping"
    ELSE LET mapping == INTENT_TABLE_MAPPING[item.intent]
         IN IF MatchingRows(store, mapping, LookupValues(item, mapping)) = {}
            THEN "not_found"
            ELSE IF DOMAIN StagedFields(item, mapping, segment_scores) = {}
            THEN "nothing_staged"
            ELSE "updated"

\* the payload is not read when the store is down: one stands for all
PayloadsWhen(dbUp) == IF dbUp THEN ReviewInputs ELSE FlagInputs
ReasonsWhen(dbUp) == IF dbUp THEN FlagReasons ELSE {"wrong"}

Next ==
    \/ \E old \in {{}} \cup {{c} : c \in cookies}, r \in Reviewers :
            callback(old, r)
    \/ \E c \in cookies : logout(c)
    \/ \E c \in cookies, i \in Items, dbUp \in BOOLEAN :
            skip_response(c, i, dbUp)
    \/ \E c \in cookies, i \in Items, dbUp \in BOOLEAN :
         \E reason \in ReasonsWhen(dbUp), inp \in FlagInputs :
            flag_response(c, i, reason, inp, dbUp)
    \/ \E c \in cookies, i \in Items, dbUp \in BOOLEAN :
         \E inp \in PayloadsWhen(dbUp) :
            save_draft(c, i, inp, dbUp)
    \/ \E c \in cookies, i \in Items, dbUp \in BOOLEAN :
         \E inp \in PayloadsWhen(dbUp) :
            submit_review(c, i, inp, dbUp)
    \/ \E c \in cookies, review_id \in 1..(Len(reviews) + 1), dbUp \in BOOLEAN :
         \E reason \in ReasonsWhen(dbUp) :
            request_rereview(c, review_id, reason, dbUp)

Spec == Init /\ [][Next]_vars

(***************************************************************************)
(* The queue as /next-response reads it.  get_next_response only reads,    *)
(* so it is explored over the states the handlers above leave behind: a    *)
(* backlog of three items, both reviewers logged in, and on each item one  *)
(* of the histories of committed requests that the handlers accept.        *)
(***************************************************************************)
BacklogFixture ==
    << [intent |-> "interaction",
        slots |-> [drug_a |-> "X", drug_b |-> "Y"],
        segments |-> <<[id |-> "S1", text |-> "orig S1"]>>,
        status |-> "pending"],
       [intent |-> "interaction",
        slots |-> [drug_a |-> "P", drug_b |-> "Q"],
        segments |-> <<[id |-> "S1", text |-> "orig S1"]>>,
        status |-> "pending"],
       [intent |-> "pregnancy",
        slots |-> [drug |-> "Z"],
        segments |-> <<[id |-> "S1", text |-> "orig S1"]>>,
        status |-> "pending"] >>

\* request.args.get('intent', 'interaction'); no item has the intent dosing
Intents == {"interaction", "pregnancy", "dosing"}

\* the committed requests one item has seen, oldest first: each reviewer
\* adds at most one Review to an item, and only its owner reopens a
\* submitted Review
Histories ==
    { << >> }
    \cup { <<[op |-> o, reviewer |-> r]>> :
             o \in {"save_draft", "flag", "submit"}, r \in Reviewers }
    \cup { <<[op |-> "submit", reviewer |-> r],
             [op |-> "request_rereview", reviewer |-> r]>> : r \in Reviewers }
    \cup UNION { { <<[op |-> "submit", reviewer |-> r],
                     [op |-> "request_rereview", reviewer |-> r],
                     [op |-> o, reviewer |-> r2]>> :
                     o \in {"flag", "submit"}, r2 \in Reviewers \ {r} } :
                 r \in Reviewers }
    \cup UNION { { <<[op |-> "submit", reviewer |-> r],
                     [op |-> "request_rereview", reviewer |-> r],
                     [op |-> "submit", reviewer |-> r2],
                     [op |-> "request_rereview", reviewer |-> r2]>> :
                     r2 \in Reviewers \ {r} } :
                 r \in Reviewers }

\* the tables once every reviewer has logged in: session r belongs to reviewer r
LoggedIn ==
    [queue |-> BacklogFixture,
     reviews |-> << >>,
     audit |-> << >>,
     sessions |-> [r \in Reviewers |->
                     [reviewer_id |-> r, session_start |-> Now, session_end |-> NULL,
                      reviews_completed |-> 0, reviews_flagged |-> 0,
                      reviews_drafted |-> 0, reviews_skipped |-> 0]],
     reviewers |-> [r \in Reviewers |->
                      [total_reviews_submitted |-> 0,
                       total_reviews_flagged |-> 0,
                       total_drafts_saved |-> 0]],
     rereq |-> << >>]

\* the tables after the request e of a history commits on item i
Commit(db, i, e) ==
    LET r == e.reviewer
        mine == { k \in DOMAIN db.reviews :
                    /\ db.reviews[k].response_queue_id = i
                    /\ db.reviews[k].reviewer_id = r }
        rid == IF mine # {} THEN CHOOSE k \in mine : TRUE ELSE Len(db.reviews) + 1
        inp == CHOOSE x \in FlagInputs : TRUE
    IN CASE e.op = "request_rereview" ->
              [db EXCEPT
                 !.rereq = Append(@, NewRereviewRequest(i, rid, r, "wrong")),
                 !.queue[i].status = "pending",
                 !.reviews[rid].is_current = FALSE]
         [] e.op = "save_draft" ->
              [db EXCEPT
                 !.reviews = Append(@, NewReview(i, r, inp, "", "draft", NULL)),
                 !.queue[i].status = "draft",
                 !.sessions[r].reviews_drafted = @ + 1,
                 !.reviewers[r].total_drafts_saved = @ + 1,
                 !.audit = Append(@, AuditEntry(rid, r, "saved_draft", "pending", "draft"))]
         [] e.op = "flag" ->
              [db EXCEPT
                 !.reviews = Append(@, NewReview(i, r, inp, "wrong", "flagged", NULL)),
                 !.queue[i].status = "flagged",
                 !.sessions[r].reviews_flagged = @ + 1,
                 !.reviewers[r].total_reviews_flagged = @ + 1,
                 !.audit = Append(@, AuditEntry(rid, r, "flagged", "pending", "flagged"))]
         [] e.op = "submit" ->
              [db EXCEPT
                 !.reviews = Append(@, NewReview(i, r, inp, "", "submitted", Now)),
                 !.queue[i].status = "submitted",
                 !.sessions[r].reviews_completed = @ + 1,
                 !.reviewers[r].total_reviews_submitted = @ + 1,
                 !.audit = Append(@, AuditEntry(rid, r, "submitted", "pending", "submitted"))]

\* the histories of the items committed one after the other, item by item
RECURSIVE Replay(_, _, _)
Replay(db, h, i) ==
    IF i \notin DOMAIN h THEN db
    ELSE IF h[i] = << >> THEN Replay(db, h, i + 1)
    ELSE Replay(Commit(db, i, Head(h[i])), [h EXCEPT ![i] = Tail(@)], i)

InitQueue ==
    \E h \in [DOMAIN BacklogFixture -> Histories] :
        LET db == Replay(LoggedIn, h, 1)
        IN /\ queue = db.queue
           /\ reviews = db.reviews
           /\ audit = db.audit
           /\ sessions = db.sessions
           /\ reviewers = db.reviewers
           /\ rereq = db.rereq
    /\ prod_updates = << >>
    /\ prod \in ProdFixtures
    /\ cookies = { [user |-> r, review_session_id |-> r] : r \in Reviewers }
    /\ shown = NothingShown
    /\ call = NoCall
    /\ txns = NoTxns
    /\ last = NoRequest

\* both priorities merged into one query
NextCandidates_NoPriority(intent, reviewer_id) ==
    { i \in DOMAIN queue :
        /\ queue[i].intent = intent
        /\ queue[i].status = "pending"
        /\ \/ \E q \in DOMAIN rereq :
                 /\ rereq[q].response_queue_id = i
                 /\ rereq[q].requested_by = reviewer_id
                 /\ rereq[q].status = "approved"
           \/ \A k \in DOMAIN reviews : reviews[k].response_queue_id # i }

\* every pending item of the intent, reviewed or not
NextCandidates_AnyPending(intent, reviewer_id) ==
    { i \in DOMAIN queue :
        queue[i].intent = intent /\ queue[i].status = "pending" }

\* the rows the two queries of get_next_response select: the pending items
\* of the intent with an approved RereviewRequest of the reviewer, and when
\* there is none the pending items of the intent without any Review
NextCandidates(intent, reviewer_id) ==
    LET rereview == { i \in DOMAIN queue :
                        /\ queue[i].intent = intent
                        /\ queue[i].status = "pending"
                        /\ \E q \in DOMAIN rereq :
                              /\ rereq[q].response_queue_id = i
                              /\ rereq[q].requested_by = reviewer_id
                              /\ rereq[q].status = "approved" }
        unreviewed == { i \in DOMAIN queue :
                          /\ queue[i].intent = intent
                          /\ queue[i].status = "pending"
                          /\ \A k \in DOMAIN reviews :
                                reviews[k].response_queue_id # i }
    IN IF rereview # {} THEN rereview ELSE unreviewed

\* .first() on a query without ORDER BY returns any of the selected rows,
\* or None when there is no row
get_next_response(c, intent) ==
    /\ c \in cookies
    /\ \E response \in IF NextCandidates(intent, c.user) = {}
                       THEN {NULL}
                       ELSE NextCandidates(intent, c.user) :
          /\ shown' = [shown EXCEPT ![c.user] = response]
          /\ last' = [op |-> "next", reviewer |-> c.user, sid |-> c.review_session_id,
                      item |-> response, err |-> "none", rid |-> NULL]
    /\ UNCHANGED <<queue, reviews, audit, sessions, reviewers, rereq,
                   prod_updates, prod, cookies, call, txns>>

NextQueue == \E c \in cookies, intent \in Intents : get_next_response(c, intent)

SpecQueue == InitQueue /\ [][NextQueue]_vars

(***************************************************************************)
(* Reviewers who load review forms and submit what they were shown: the    *)
(* logins, /next-response and /review/submit, from the empty tables.       *)
(***************************************************************************)
NextLease ==
    \/ \E old \in {{}} \cup {{c} : c \in cookies}, r \in Reviewers :
            callback(old, r)
    \/ \E c \in cookies, intent \in Intents : get_next_response(c, intent)
    \/ \E c \in cookies, i \in Items, dbUp \in BOOLEAN :
         \E inp \in PayloadsWhen(dbUp) :
            submit_review(c, i, inp, dbUp)

SpecLease == Init /\ [][NextLease]_vars

(***************************************************************************)
(* ProductionUpdateService.update_production as it runs: the part up to    *)
(* the staging of the columns (with the SELECT), then _execute_update and  *)
(* the record it returns.  No handler calls it, so the calls are made on   *)
(* items and scores of their own; between the two parts another writer of  *)
(* the production store may act.                                           *)
(***************************************************************************)
ReconcileQueue ==
    << [intent |-> "interaction",
        slots |-> [drug_a |-> "X", drug_b |-> "Y"],
        segments |-> <<[id |-> "S1", text |-> "orig S1"],
                       [id |-> "S2", text |-> "orig S2"]>>,
        status |-> "submitted"],
       [intent |-> "interaction",
        slots |-> [drug_a |-> "X"],
        segments |-> <<[id |-> "S1", text |-> "orig S1"]>>,
        status |-> "submitted"],
       [intent |-> "pregnancy",
        slots |-> [drug |-> "Z"],
        segments |-> <<[id |-> "S1", text |-> "orig S1"]>>,
        status |-> "submitted"] >>

\* S1 edited, S2 and S3 scored without an edit (the items have no S3), and
\* suggestions on S4 and on a segment the mapping does not know
ScoresMixed ==
    [s \in {"S1", "S2", "S3", "S4", "S9"} |->
        [score |-> 4,
         suggestion |-> CASE s = "S1" -> "New text"
                          [] s = "S4" -> "src"
                          [] s = "S9" -> "stray"
                          [] OTHER -> ""]]

\* nothing to stage: S3 without an edit, S4 with one
ScoresUnmapped ==
    [s \in {"S3", "S4"} |->
        [score |-> 2, suggestion |-> IF s = "S4" THEN "src" ELSE ""]]

ReconcileScores == {ScoresSuggest, ScoresPlain, ScoresMixed, ScoresUnmapped}

\* a row that already holds the generated text of S1 and S2
SameRow == [DdiRow EXCEPT !.effect_s1 = "orig S1", !.guidance = "orig S2"]

\* a second row under the same composite key: the key is not unique
DupRow == [DdiRow EXCEPT !.effect_s1 = "dup S1"]

\* the row of another pair
OtherRow == [DdiRow EXCEPT !.object_drug = "W"]

ReconcileStores ==
    { [t \in {"public.document_ddi_pairs", "content.drug_dosing"} |->
          IF t = "public.document_ddi_pairs" THEN rows ELSE << >>] :
      rows \in { <<OtherRow>>, <<DdiRow, OtherRow>>, <<SameRow, OtherRow>>,
                 <<DdiRow, DupRow>> } }

InitReconcile ==
    /\ queue = ReconcileQueue
    /\ reviews = << >>
    /\ audit = << >>
    /\ sessions = << >>
    /\ reviewers = [r \in Reviewers |->
                      [total_reviews_submitted |-> 0,
                       total_reviews_flagged |-> 0,
                       total_drafts_saved |-> 0]]
    /\ rereq = << >>
    /\ prod_updates = << >>
    /\ prod \in ReconcileStores
    /\ cookies = {}
    /\ shown = NothingShown
    /\ call = NoCall
    /\ txns = NoTxns
    /\ last = NoRequest

\* an UPDATE reported as done whatever its rowcount
RowsUpdated_Unchecked(rowcount) == TRUE

\* if result.rowcount > 0: return True
RowsUpdated(rowcount) == rowcount > 0

\* for segment_id, db_field in segment_field_mapping.items():
\*     if db_field and db_field in current_record: original_fields[db_field] = ...
OriginalFields(mapping, current_record) ==
    LET segs == DOMAIN mapping.segment_field_mapping
        cols == { mapping.segment_field_mapping[seg] : seg \in segs }
                   \cap DOMAIN current_record
    IN [col \in cols |-> current_record[col]]

\* update_production up to the staging: mapping, lookup values, the SELECT
\* ... LIMIT 1 (any matching row; an exception of the SELECT is logged and
\* gives None), original_fields, updated_fields
update_production(i, segment_scores, reviewer_id, dbUp) ==
    /\ call.pc \in {"idle", "done"}
    /\ i \in DOMAIN queue
    /\ LET item == queue[i]
           frame == [NoCall EXCEPT !.pc = "done", !.item = i,
                                   !.segment_scores = segment_scores,
                                   !.reviewer_id = reviewer_id]
       IN IF item.intent \notin DOMAIN INTENT_TABLE_MAPPING
          THEN call' = [frame EXCEPT !.outcome = "no_mapping"]
          ELSE LET mapping == INTENT_TABLE_MAPPING[item.intent]
                   lookup_values == LookupValues(item, mapping)
                   rows == IF dbUp THEN MatchingRows(prod, mapping, lookup_values)
                           ELSE {}
                   updated_fields == StagedFields(item, mapping, segment_scores)
               IN IF rows = {}
                  THEN call' = [frame EXCEPT !.outcome = "not_found",
                                             !.lookup_values = lookup_values]
                  ELSE \E k \in rows :
                         LET current_record == prod[mapping.table][k]
                             found == [frame EXCEPT
                                         !.lookup_values = lookup_values,
                                         !.original_fields =
                                             OriginalFields(mapping, current_record),
                                         !.updated_fields = updated_fields]
                         IN call' = IF DOMAIN updated_fields = {}
                                    THEN [found EXCEPT !.outcome = "nothing_staged"]
                                    ELSE [found EXCEPT !.pc = "update"]
    /\ UNCHANGED <<queue, reviews, audit, sessions, reviewers, rereq,
                   prod_updates, prod, cookies, shown, last, txns>>

\* an UPDATE that also blanks the columns it was not given
SetColumns_WholeRow(row, update_fields) ==
    [f \in DOMAIN row |-> IF f \in DOMAIN update_fields THEN update_fields[f] ELSE ""]

\* UPDATE table SET col = :col, ... on one row
SetColumns(row, update_fields) ==
    [f \in DOMAIN row |-> IF f \in DOMAIN update_fields THEN update_fields[f] ELSE row[f]]

\* what `last` keeps of an UPDATE statement: the rows it selected, as they
\* were before it ran
Overwritten(store, item, lookup_values, dbUp) ==
    LET mapping == INTENT_TABLE_MAPPING[item.intent]
        rows == IF dbUp THEN MatchingRows(store, mapping, lookup_values) ELSE {}
    IN [k \in rows |-> store[mapping.table][k]]

\* a store that lets no other writer in while a call is in progress
external_write_Locked(t, k, kind) == FALSE

\* _execute_update and the rest of update_production: the UPDATE of every
\* row under the lookup key, committed; with rowcount 0 or an exception
\* None is returned, otherwise the ProductionUpdate that was constructed
\* (review_id=None; it is not added to the session)
execute_update(dbUp) ==
    /\ call.pc = "update"
    /\ LET item == queue[call.item]
           mapping == INTENT_TABLE_MAPPING[item.intent]
           rows == MatchingRows(prod, mapping, call.lookup_values)
           prod_update == [review_id |-> NULL, intent |-> item.intent,
                           target_table |-> mapping.table,
                           original_data |-> call.original_fields,
                           updated_data |-> call.updated_fields,
                           updated_by |-> call.reviewer_id]
       IN IF ~dbUp
          THEN /\ call' = [call EXCEPT !.pc = "done", !.outcome = "error"]
               /\ prod' = prod
          ELSE /\ prod' = [prod EXCEPT ![mapping.table] =
                             [k \in DOMAIN @ |->
                                IF k \in rows
                                THEN SetColumns(@[k], call.updated_fields)
                                ELSE @[k]]]
               /\ call' = IF RowsUpdated(Cardinality(rows))
                          THEN [call EXCEPT !.pc = "done", !.outcome = "updated",
                                            !.result = <<prod_update>>]
                          ELSE [call EXCEPT !.pc = "done", !.outcome = "zero_rows"]
    /\ last' = [op |-> "update", reviewer |-> call.reviewer_id, sid |-> NULL,
                item |-> call.item, err |-> IF dbUp THEN "none" ELSE "OperationalError",
                rid |-> NULL,
                overwritten |-> Overwritten(prod, queue[call.item], call.lookup_values, dbUp)]
    /\ UNCHANGED <<queue, reviews, audit, sessions, reviewers, rereq,
                   prod_updates, cookies, shown, txns>>

\* another writer of the production store between the SELECT and the
\* UPDATE: it deletes a row, moves it to another key, or edits a column
ExternalWrites == {"delete", "rekey", "edit"}

external_write(t, k, kind) ==
    /\ call.pc = "update"
    /\ k \in DOMAIN prod[t]
    /\ prod' = [prod EXCEPT ![t] =
                  CASE kind = "delete" ->
                         SubSeq(@, 1, k - 1) \o SubSeq(@, k + 1, Len(@))
                    [] kind = "rekey" -> [@ EXCEPT ![k].object_drug = "V"]
                    [] kind = "edit" -> [@ EXCEPT ![k].effect_s1 = "ext S1"]]
    /\ UNCHANGED <<queue, reviews, audit, sessions, reviewers, rereq,
                   prod_updates, cookies, shown, call, txns, last>>

NextReconcile ==
    \/ \E i \in DOMAIN queue, segment_scores \in ReconcileScores,
          reviewer_id \in Reviewers, dbUp \in BOOLEAN :
            update_production(i, segment_scores, reviewer_id, dbUp)
    \/ \E dbUp \in BOOLEAN : execute_update(dbUp)
    \/ \E t \in DOMAIN prod, kind \in ExternalWrites :
         \E k \in DOMAIN prod[t] : external_write(t, k, kind)

SpecReconcile == InitReconcile /\ [][NextReconcile]_vars

(***************************************************************************)
(* Properties.                                                             *)
(***************************************************************************)
ReviewsOf(i, r) ==
    { k \in DOMAIN reviews :
        reviews[k].response_queue_id = i /\ reviews[k].reviewer_id = r }

CurrentReviewsOfItem(i) ==
    { k \in DOMAIN reviews :
        reviews[k].response_queue_id = i /\ reviews[k].is_current }

ReviewActions == {"save_draft", "flag", "submit"}

\* the audit log grew by exactly one entry and kept the others
AuditAppended == Len(audit') = Len(audit) + 1 /\ SubSeq(audit', 1, Len(audit)) = audit

\* the rows of reviews that a step created or changed
ChangedRows ==
    { k \in DOMAIN reviews' : k \notin DOMAIN reviews \/ reviews'[k] # reviews[k] }

\* what a committed save_draft, flag or submit leaves behind
Committed_Effects(st, sessionCounter, reviewerCounter, action) ==
    LET i == last'.item
        r == last'.reviewer
        sid == last'.sid
        rid == last'.rid
    IN /\ rid \in DOMAIN reviews'
       /\ reviews'[rid].response_queue_id = i
       /\ reviews'[rid].reviewer_id = r
       /\ reviews'[rid].status = st
       /\ queue'[i].status = st
       /\ sessions'[sid][sessionCounter] = sessions[sid][sessionCounter] + 1
       /\ reviewers'[r][reviewerCounter] = reviewers[r][reviewerCounter] + 1
       /\ AuditAppended
       /\ audit'[Len(audit')].review_id = rid
       /\ audit'[Len(audit')].reviewer_id = r
       /\ audit'[Len(audit')].action = action

\* C1: in every reachable state, for every (queue item, reviewer) pair at
\* most one Review has is_current = true.
C1_OneCurrentPerItemAndReviewer ==
    \A i \in Items, r \in Reviewers :
        Cardinality({ k \in ReviewsOf(i, r) : reviews[k].is_current }) <= 1

\* a reviewer who holds a current Review tried to add another Review and the
\* insert was rejected
C1_Witness ==
    /\ last.op \in {"flag", "submit"}
    /\ last.err = "IntegrityError"
    /\ \E k \in DOMAIN reviews : reviews[k].is_current

\* C2: in every reachable state each queue item has at most one Review with
\* is_current = true, counted across all reviewers.
C2_OneCurrentPerItem ==
    \A i \in Items : Cardinality(CurrentReviewsOfItem(i)) <= 1

\* C3: whenever a queue item has a Review with is_current = true, the
\* item's status equals that Review's status.
C3_StatusIsCurrentReviewStatus ==
    \A k \in DOMAIN reviews :
        reviews[k].is_current =>
            queue[reviews[k].response_queue_id].status = reviews[k].status

\* C4: every change of a queue item's status is an allowed transition:
\* pending->draft, pending->flagged, pending->submitted, draft->flagged,
\* draft->submitted, or submitted->pending, the last through
\* request_rereview only (draft->draft changes nothing).
AllowedTransitions ==
    { <<"pending", "draft">>, <<"pending", "flagged">>, <<"pending", "submitted">>,
      <<"draft", "draft">>, <<"draft", "flagged">>, <<"draft", "submitted">>,
      <<"submitted", "pending">> }

C4_OnlyAllowedTransitions ==
    [][ \A i \in Items :
          queue'[i].status # queue[i].status =>
              /\ <<queue[i].status, queue'[i].status>> \in AllowedTransitions
              /\ queue'[i].status = "pending" => last'.op = "request_rereview"
      ]_vars

\* C5: skip, save_draft, flag and submit are all-or-nothing: a request that
\* reports failure leaves reviews, queue, sessions, reviewers and the audit
\* log as they were; one that reports success leaves all its side effects.
C5_AllOrNothing ==
    [][ last'.op \in ReviewActions \cup {"skip"} =>
          IF last'.err # "none"
          THEN UNCHANGED <<queue, reviews, audit, sessions, reviewers>>
          ELSE CASE last'.op = "skip" ->
                      /\ sessions'[last'.sid].reviews_skipped
                            = sessions[last'.sid].reviews_skipped + 1
                      /\ AuditAppended
                      /\ audit'[Len(audit')].action = "skipped"
                 [] last'.op = "save_draft" ->
                      Committed_Effects("draft", "reviews_drafted",
                                        "total_drafts_saved", "saved_draft")
                 [] last'.op = "flag" ->
                      Committed_Effects("flagged", "reviews_flagged",
                                        "total_reviews_flagged", "flagged")
                 [] last'.op = "submit" ->
                      Committed_Effects("submitted", "reviews_completed",
                                        "total_reviews_submitted", "submitted")
      ]_vars

\* a flag was rejected at the insert of its Review after an earlier action
\* of the same session had committed
C5_Witness ==
    /\ last.op = "flag"
    /\ last.err = "IntegrityError"
    /\ audit # << >>
    /\ \E sid \in DOMAIN sessions : sessions[sid].reviews_drafted > 0

\* C6: a submit on a pending, never-reviewed queue item (store available)
\* succeeds and leaves the item submitted and exactly one new Review for
\* (item, reviewer): submitted, version 1, current, with submitted_at set.
C6_FirstSubmit ==
    [][ last'.op = "submit" =>
        \A c \in cookies, i \in Items, inp \in ReviewInputs :
          ( /\ queue[i].status = "pending"
            /\ \A k \in DOMAIN reviews : reviews[k].response_queue_id # i
            /\ submit_review(c, i, inp, TRUE) )
          => /\ last'.err = "none"
             /\ queue'[i].status = "submitted"
             /\ Len(reviews') = Len(reviews) + 1
             /\ { k \in DOMAIN reviews' :
                    /\ reviews'[k].response_queue_id = i
                    /\ reviews'[k].reviewer_id = c.user } = {Len(reviews')}
             /\ LET review == reviews'[Len(reviews')]
                IN /\ review.status = "submitted"
                   /\ review.version = 1
                   /\ review.is_current
                   /\ review.submitted_at # NULL
                   /\ review.segment_scores = inp.segment_scores
      ]_vars

\* a submit committed the only Review of its item
C6_Witness ==
    /\ last.op = "submit"
    /\ last.err = "none"
    /\ { k \in DOMAIN reviews : reviews[k].response_queue_id = last.item } = {last.rid}

\* C7: every successful submit invokes the reconciler, and when the
\* reconciler produces a record a ProductionUpdate that references the new
\* Review and carries the staged columns exists afterwards.
C7_SubmitRecordsProductionUpdate ==
    ( /\ last.op = "submit"
      /\ last.err = "none"
      /\ ReconcileOutcome(prod, queue[last.item],
                          reviews[last.rid].segment_scores) = "updated" )
    => \E k \in DOMAIN prod_updates :
          /\ prod_updates[k].review_id = last.rid
          /\ prod_updates[k].updated_data =
                StagedFields(queue[last.item],
                             INTENT_TABLE_MAPPING[queue[last.item].intent],
                             reviews[last.rid].segment_scores)

C8_WitnessNoMapping ==
    /\ last.op = "submit"
    /\ last.err = "none"
    /\ ReconcileOutcome(prod, queue[last.item],
                        reviews[last.rid].segment_scores) = "no_mapping"

C9_SkipSucceeds ==
    [][ last'.op = "skip" =>
        \A c \in cookies, i \in Items :
          ( /\ c.review_session_id \in DOMAIN sessions
            /\ skip_response(c, i, TRUE) )
          => /\ last'.err = "none"
             /\ sessions'[c.review_session_id].reviews_skipped
                   = sessions[c.review_session_id].reviews_skipped + 1
             /\ AuditAppended
             /\ audit'[Len(audit')].action = "skipped"
             /\ audit'[Len(audit')].review_id = NULL
      ]_vars

\* C10: skip creates or changes no Review row and leaves the queue alone;
\* a successful save_draft, flag or submit creates or changes the one row of
\* its (item, reviewer) and no other.
C10_RowsTouched ==
    [][ /\ last'.op = "skip" => reviews' = reviews /\ queue' = queue
        /\ (last'.op \in ReviewActions /\ last'.err = "none") =>
              /\ ChangedRows \subseteq {last'.rid}
              /\ last'.rid \in DOMAIN reviews'
              /\ { k \in DOMAIN reviews' :
                     /\ reviews'[k].response_queue_id = last'.item
                     /\ reviews'[k].reviewer_id = last'.reviewer } = {last'.rid}
              /\ last'.op \in {"flag", "submit"} => ChangedRows = {last'.rid}
              /\ Len(reviews') <= Len(reviews) + 1
      ]_vars

\* a save_draft rewrote the reviewer's draft in place while another Review
\* row exists
C10_Witness ==
    /\ last.op = "save_draft"
    /\ last.err = "none"
    /\ last.rid < Len(reviews)
    /\ Len(audit) > Len(reviews)

\* the tables a failed request must leave as they were
Tables == <<queue, reviews, audit, sessions, reviewers, rereq, prod_updates, prod>>

\* C11: after any number of committed save_draft calls by one reviewer on
\* one item (the reviewer holding no other Review on it) exactly one draft
\* Review exists for the pair, with version 1 and the scores and notes of
\* the latest call, and the item is draft: a later save rewrites the draft
\* in place.
C11_RepeatedDraftInPlace ==
    [][ last'.op = "save_draft" =>
        \A c \in cookies, i \in Items, inp \in ReviewInputs :
          ( /\ \A k \in ReviewsOf(i, c.user) : reviews[k].status = "draft"
            /\ save_draft(c, i, inp, TRUE) )
          => /\ last'.err = "none"
             /\ LET ds == { k \in DOMAIN reviews' :
                              /\ reviews'[k].response_queue_id = i
                              /\ reviews'[k].reviewer_id = c.user }
                IN /\ Cardinality(ds) = 1
                   /\ \A k \in ds :
                        /\ reviews'[k].status = "draft"
                        /\ reviews'[k].version = 1
                        /\ reviews'[k].segment_scores = inp.segment_scores
                        /\ reviews'[k].overall_notes = inp.overall_notes
             /\ Len(reviews') = Len(reviews) + (IF ReviewsOf(i, c.user) = {} THEN 1 ELSE 0)
             /\ queue'[i].status = "draft"
      ]_vars

\* a reviewer saved the same draft twice and holds one Review on the item
C11_Witness ==
    /\ last.op = "save_draft"
    /\ last.err = "none"
    /\ Len(audit) >= 2
    /\ audit[Len(audit) - 1].action = "saved_draft"
    /\ audit[Len(audit) - 1].review_id = last.rid
    /\ Cardinality(ReviewsOf(last.item, last.reviewer)) = 1

\* C12: a reviewer who saved a draft of an item can promote it: a later
\* flag (with a reason) or submit by the same reviewer on that item
\* succeeds and leaves the item flagged or submitted.
C12_DraftCanBePromoted ==
    [][ last'.op \in {"flag", "submit"} =>
        \A c \in cookies, i \in Items, inp \in FlagInputs :
          (\E k \in ReviewsOf(i, c.user) : reviews[k].status = "draft")
          => /\ submit_review(c, i, inp, TRUE)
                  => last'.err = "none" /\ queue'[i].status = "submitted"
             /\ flag_response(c, i, "wrong", inp, TRUE)
                  => last'.err = "none" /\ queue'[i].status = "flagged"
      ]_vars

\* C13: a flag sent with an empty reason reports failure and changes
\* nothing.
C13_FlagNeedsReason ==
    [][ last'.op = "flag" =>
        \A c \in cookies, i \in Items, inp \in FlagInputs, dbUp \in BOOLEAN :
          flag_response(c, i, "", inp, dbUp)
          => /\ last'.err # "none"
             /\ UNCHANGED Tables
      ]_vars

\* a flag without a reason was turned away on a pending item
C13_Witness ==
    /\ last.op = "flag"
    /\ last.err = "MissingData"
    /\ \E i \in Items : queue[i].status = "pending"

\* C14: a committed save_draft, flag or submit adds 1 to its own session
\* counter and its own reviewer counter (reviews_drafted and
\* total_drafts_saved, reviews_flagged and total_reviews_flagged,
\* reviews_completed and total_reviews_submitted) and leaves every other
\* counter of every session and reviewer as it was; a save_draft that
\* rewrites a draft in place counts again.
SessionCounterOf(op) ==
    CASE op = "save_draft" -> "reviews_drafted"
      [] op = "flag" -> "reviews_flagged"
      [] op = "submit" -> "reviews_completed"

ReviewerCounterOf(op) ==
    CASE op = "save_draft" -> "total_drafts_saved"
      [] op = "flag" -> "total_reviews_flagged"
      [] op = "submit" -> "total_reviews_submitted"

C14_OwnCountersOnly ==
    [][ (last'.op \in ReviewActions /\ last'.err = "none") =>
          /\ last'.sid \in DOMAIN sessions
          /\ sessions' = [sessions EXCEPT
                            ![last'.sid][SessionCounterOf(last'.op)] = @ + 1]
          /\ reviewers' = [reviewers EXCEPT
                            ![last'.reviewer][ReviewerCounterOf(last'.op)] = @ + 1]
      ]_vars

\* a draft was saved a second time in place and counted a second time
C14_Witness ==
    /\ last.op = "save_draft"
    /\ last.err = "none"
    /\ sessions[last.sid].reviews_drafted = 2
    /\ reviewers[last.reviewer].total_drafts_saved = 2
    /\ Len(reviews) = 1

\* C15: request_rereview by the reviewer who owns a submitted Review, with
\* a reason, succeeds: a new RereviewRequest with status approved refers to
\* the Review and its item, the item is pending, the Review has is_current
\* false, and the Review's status and version are as before.
C15_OwnerReopens ==
    [][ last'.op = "request_rereview" =>
        \A c \in cookies, rid \in DOMAIN reviews :
          ( /\ reviews[rid].reviewer_id = c.user
            /\ reviews[rid].status = "submitted"
            /\ request_rereview(c, rid, "wrong", TRUE) )
          => /\ last'.err = "none"
             /\ Len(rereq') = Len(rereq) + 1
             /\ SubSeq(rereq', 1, Len(rereq)) = rereq
             /\ LET request == rereq'[Len(rereq')]
                IN /\ request.status = "approved"
                   /\ request.original_review_id = rid
                   /\ request.response_queue_id = reviews[rid].response_queue_id
                   /\ request.requested_by = c.user
             /\ queue'[reviews[rid].response_queue_id].status = "pending"
             /\ reviews'[rid].is_current = FALSE
             /\ reviews'[rid].status = reviews[rid].status
             /\ reviews'[rid].version = reviews[rid].version
      ]_vars

\* a reviewer reopened the item of their own submitted Review
C15_Witness ==
    /\ last.op = "request_rereview"
    /\ last.err = "none"
    /\ reviews[last.rid].reviewer_id = last.reviewer
    /\ reviews[last.rid].status = "submitted"
    /\ ~reviews[last.rid].is_current
    /\ queue[last.item].status = "pending"
    /\ rereq[Len(rereq)].original_review_id = last.rid

\* C16: request_rereview by a reviewer who does not own the Review fails
\* with an authorization error and leaves the item's status, the Review's
\* is_current and the RereviewRequests as they were.
C16_OnlyOwnerReopens ==
    [][ last'.op = "request_rereview" =>
        \A c \in cookies, rid \in DOMAIN reviews :
          ( /\ reviews[rid].reviewer_id # c.user
            /\ request_rereview(c, rid, "wrong", TRUE) )
          => /\ last'.err = "Forbidden"
             /\ UNCHANGED Tables
      ]_vars

\* a reviewer was refused the re-review of another reviewer's submitted Review
C16_Witness ==
    /\ last.op = "request_rereview"
    /\ last.err = "Forbidden"
    /\ \E k \in DOMAIN reviews : reviews[k].status = "submitted" /\ reviews[k].is_current
    /\ rereq = << >>

\* C17: request_rereview on a Review whose status is not submitted (a
\* draft or a flagged Review) fails with a state error and changes nothing.
C17_OnlySubmittedReopens ==
    [][ last'.op = "request_rereview" =>
        \A c \in cookies, rid \in DOMAIN reviews :
          ( /\ reviews[rid].reviewer_id = c.user
            /\ reviews[rid].status \in {"draft", "flagged"}
            /\ request_rereview(c, rid, "wrong", TRUE) )
          => /\ last'.err = "BadState"
             /\ UNCHANGED Tables
      ]_vars

\* the owner of a draft or flagged Review was refused its re-review
C17_Witness ==
    /\ last.op = "request_rereview"
    /\ last.err = "BadState"
    /\ \E k \in DOMAIN reviews : reviews[k].status \in {"draft", "flagged"}
    /\ \A k \in DOMAIN reviews : reviews[k].is_current

\* C18: once request_rereview has reopened an item, the same reviewer can
\* review it again: the next submit or flag on it succeeds and creates a
\* new Review of a strictly greater version with is_current true, the
\* earlier Review keeping is_current false.
ReviewedAgain(i, r) ==
    /\ last'.err = "none"
    /\ Len(reviews') = Len(reviews) + 1
    /\ reviews'[Len(reviews')].response_queue_id = i
    /\ reviews'[Len(reviews')].reviewer_id = r
    /\ reviews'[Len(reviews')].is_current
    /\ \A k \in ReviewsOf(i, r) :
          /\ reviews'[Len(reviews')].version > reviews[k].version
          /\ ~reviews'[k].is_current

C18_ReviewAgainAfterReopen ==
    [][ last'.op \in {"flag", "submit"} =>
        \A c \in cookies, i \in Items, inp \in FlagInputs :
          ( /\ queue[i].status = "pending"
            /\ \E q \in DOMAIN rereq :
                  /\ rereq[q].response_queue_id = i
                  /\ rereq[q].requested_by = c.user
            /\ \A k \in ReviewsOf(i, c.user) : ~reviews[k].is_current )
          => /\ submit_review(c, i, inp, TRUE) => ReviewedAgain(i, c.user)
             /\ flag_response(c, i, "wrong", inp, TRUE) => ReviewedAgain(i, c.user)
      ]_vars

\* the pending items of an intent that a reviewer has reopened
Reopened(intent, r) ==
    { i \in DOMAIN queue :
        /\ queue[i].intent = intent
        /\ queue[i].status = "pending"
        /\ \E q \in DOMAIN rereq :
              /\ rereq[q].response_queue_id = i
              /\ rereq[q].requested_by = r
              /\ rereq[q].status = "approved" }

\* the pending items of an intent that nobody has reviewed
NeverReviewed(intent) ==
    { i \in DOMAIN queue :
        /\ queue[i].intent = intent
        /\ queue[i].status = "pending"
        /\ \A k \in DOMAIN reviews : reviews[k].response_queue_id # i }

\* C19 as stated: once reviewer R has reopened item I of intent T and while
\* I is pending, next(T, R) returns I, even when never-reviewed pending
\* items of intent T exist.
C19_ReopenedItemReturned ==
    [][ \A c \in cookies, intent \in Intents :
          get_next_response(c, intent) =>
              \A i \in Reopened(intent, c.user) : last'.item = i
      ]_vars

\* C19 amended: once reviewer R has reopened item I of intent T and while I
\* is pending, next(T, R) returns a pending item of intent T that R has
\* reopened, never a never-reviewed one; it returns I itself when R has
\* reopened no other pending item of intent T.
C19_ReopenedItemsFirst ==
    [][ \A c \in cookies, intent \in Intents :
          ( Reopened(intent, c.user) # {} /\ get_next_response(c, intent) )
          => /\ last'.item \in Reopened(intent, c.user)
             /\ \A i \in DOMAIN queue :
                   Reopened(intent, c.user) = {i} => last'.item = i
      ]_vars

\* next returned the item its reviewer reopened while a never-reviewed item
\* of the same intent was waiting
C19_Witness ==
    /\ last.op = "next"
    /\ last.item # NULL
    /\ last.item \in Reopened(queue[last.item].intent, last.reviewer)
    /\ NeverReviewed(queue[last.item].intent) # {}

\* C20: next(T, R) returns an item only if the item has intent T, is
\* pending and either has an approved RereviewRequest made by R or has no
\* Review by anyone; it returns none exactly when no such item exists.
\* Items in status draft, flagged or submitted are never returned.
C20_NextReturnsEligibleOnly ==
    [][ \A c \in cookies, intent \in Intents :
          get_next_response(c, intent) =>
              LET eligible == Reopened(intent, c.user) \cup NeverReviewed(intent)
              IN /\ last'.item # NULL => last'.item \in eligible
                 /\ last'.item = NULL <=> eligible = {}
                 /\ last'.item # NULL => queue[last'.item].status = "pending"
      ]_vars

\* next returned an item while a pending item of the same intent that only
\* another reviewer has reopened, and a submitted one, were passed over
C20_Witness ==
    /\ last.op = "next"
    /\ last.item # NULL
    /\ \E j \in DOMAIN queue :
          /\ j # last.item
          /\ queue[j].intent = queue[last.item].intent
          /\ queue[j].status = "pending"
          /\ j \notin Reopened(queue[j].intent, last.reviewer)
          /\ j \notin NeverReviewed(queue[j].intent)
    /\ \E j \in DOMAIN queue : queue[j].status \in {"draft", "flagged", "submitted"}

\* C21: when several items are eligible within the same priority class,
\* next returns the one created earliest: of the reviewer's reopened items
\* the oldest, and when there is none the oldest never-reviewed item (items
\* are numbered in creation order).
C21_OldestFirst ==
    [][ \A c \in cookies, intent \in Intents :
          get_next_response(c, intent) =>
              LET class == IF Reopened(intent, c.user) # {}
                           THEN Reopened(intent, c.user)
                           ELSE NeverReviewed(intent)
              IN \A j \in class : last'.item <= j
      ]_vars

\* C22: there is no claim or lease.  next changes no table, so it can
\* return the same pending item to two reviewers, and a reviewer who was
\* shown an item and holds no Review of it can submit it whatever another
\* reviewer has done to it since: the submit succeeds and creates that
\* reviewer's own Review.
C22_NoLease ==
    [][ /\ \A c \in cookies, intent \in Intents :
              get_next_response(c, intent) => UNCHANGED Tables
        /\ last'.op = "submit" =>
             \A c \in cookies, i \in Items, inp \in ReviewInputs :
               ( /\ shown[c.user] = i
                 /\ ReviewsOf(i, c.user) = {}
                 /\ submit_review(c, i, inp, TRUE) )
               => /\ last'.err = "none"
                  /\ Len(reviews') = Len(reviews) + 1
                  /\ reviews'[Len(reviews')].response_queue_id = i
                  /\ reviews'[Len(reviews')].reviewer_id = c.user
                  /\ reviews'[Len(reviews')].status = "submitted"
      ]_vars

\* two reviewers were shown the same item while it was pending and both
\* have submitted it, each with a Review of their own
C22_Witness ==
    /\ last.op = "submit"
    /\ last.err = "none"
    /\ rereq = << >>
    /\ \E r1 \in Reviewers, r2 \in Reviewers, i \in Items :
          /\ r1 # r2
          /\ shown[r1] = i
          /\ shown[r2] = i
          /\ \E k \in ReviewsOf(i, r1) : reviews[k].status = "submitted"
          /\ \E k \in ReviewsOf(i, r2) : reviews[k].status = "submitted"

\* C23: every workflow transition appends an audit entry: each committed
\* save_draft, flag, submit, request_rereview and skip adds exactly one
\* entry to the audit log in the step that commits it, and no step changes
\* or removes an entry the log already holds.
C23_EveryTransitionAudited ==
    [][ /\ ( /\ last'.err = "none"
             /\ last'.op \in ReviewActions \cup {"skip", "request_rereview"} )
           => AuditAppended
        /\ (\E i \in Items : queue'[i].status # queue[i].status) => AuditAppended
        /\ Len(audit') >= Len(audit)
        /\ SubSeq(audit', 1, Len(audit)) = audit
      ]_vars

\* C24: after any sequence of logins and logouts, a second login without a
\* logout included, each reviewer has at most one ReviewSession whose
\* session_end is null.
C24_OneOpenSessionPerReviewer ==
    \A r \in Reviewers :
        Cardinality({ sid \in DOMAIN sessions :
                        /\ sessions[sid].reviewer_id = r
                        /\ sessions[sid].session_end = NULL }) <= 1

\* the rows of a table that hold the lookup key; an absent slot (None)
\* compares equal to nothing
RowsUnderKey(store, table, key) ==
    { k \in DOMAIN store[table] :
        \A f \in DOMAIN key : key[f] # None /\ store[table][k][f] = key[f] }

\* the intent of item i has no mapping, or no production row is under the
\* key that the slots of item i give
Unreconcilable(i) ==
    \/ queue[i].intent \notin DOMAIN INTENT_TABLE_MAPPING
    \/ LET mapping == INTENT_TABLE_MAPPING[queue[i].intent]
       IN RowsUnderKey(prod, mapping.table, LookupValues(queue[i], mapping)) = {}

\* the column the mapping of item i gives a segment id, None for none
ColumnOf(i, seg) ==
    LET sfm == INTENT_TABLE_MAPPING[queue[i].intent].segment_field_mapping
    IN IF seg \in DOMAIN sfm THEN sfm[seg] ELSE None

\* the stored segments of item i with the id seg
SegmentsOf(i, seg) ==
    { k \in DOMAIN queue[i].segments : queue[i].segments[k].id = seg }

\* C25: reconcile ends with the not-found outcome, writes nothing to the
\* production store and produces no ProductionUpdate when the item's
\* intent has no mapping entry or when no production row is under the
\* lookup key derived from the item's slots, a required slot being absent
\* included.
C25_NotFoundWritesNothing ==
    [][ \A i \in DOMAIN queue \cap {call'.item}, dbUp \in BOOLEAN :
          ( /\ Unreconcilable(i)
            /\ update_production(i, call'.segment_scores, call'.reviewer_id, dbUp) )
          => /\ call'.pc = "done"
             /\ call'.outcome \in {"no_mapping", "not_found"}
             /\ call'.result = << >>
             /\ prod' = prod
             /\ prod_updates' = prod_updates
      ]_vars

\* a reconcile of the item without its drug_b slot ended not found while
\* the table holds rows of its drug_a
C25_Witness ==
    /\ call.pc = "done"
    /\ call.outcome = "not_found"
    /\ call.item \in DOMAIN queue
    /\ "drug_b" \notin DOMAIN queue[call.item].slots
    /\ \E k \in DOMAIN prod["public.document_ddi_pairs"] :
          prod["public.document_ddi_pairs"][k].subject_drug
              = queue[call.item].slots.drug_a

\* C26: for every segment id of the scores that maps to a column,
\* reconcile stages for that column the suggestion when there is one and
\* otherwise the item's original text of the segment with that id;
\* segments mapped to no column (S4) or unknown to the mapping are never
\* staged, and nothing is staged for a segment without a suggestion that
\* the item does not store.
C26_StagedColumns ==
    [][ \A i \in DOMAIN queue \cap {call'.item} :
          ( /\ update_production(i, call'.segment_scores, call'.reviewer_id, TRUE)
            /\ call'.outcome \notin {"no_mapping", "not_found"} )
          => LET staged == call'.updated_fields
                 scores == call'.segment_scores
             IN /\ \A seg \in DOMAIN scores :
                      ColumnOf(i, seg) # None =>
                        IF scores[seg].suggestion # ""
                        THEN /\ ColumnOf(i, seg) \in DOMAIN staged
                             /\ staged[ColumnOf(i, seg)] = scores[seg].suggestion
                        ELSE IF SegmentsOf(i, seg) # {}
                        THEN /\ ColumnOf(i, seg) \in DOMAIN staged
                             /\ \E k \in SegmentsOf(i, seg) :
                                   staged[ColumnOf(i, seg)] = queue[i].segments[k].text
                        ELSE ColumnOf(i, seg) \notin DOMAIN staged
                /\ \A col \in DOMAIN staged :
                      /\ col # None
                      /\ \E seg \in DOMAIN scores : ColumnOf(i, seg) = col
      ]_vars

\* a reconcile staged the suggestion for S1 and the original text for S2,
\* and nothing for S3, S4 and the unknown segment
C26_Witness ==
    /\ call.pc = "update"
    /\ DOMAIN call.segment_scores = {"S1", "S2", "S3", "S4", "S9"}
    /\ DOMAIN call.updated_fields = {"effect_s1", "guidance"}
    /\ call.updated_fields.effect_s1 = "New text"
    /\ call.updated_fields.guidance = "orig S2"

\* C27: when no column is staged (no mapped segment carries a suggestion
\* or has an original text), reconcile returns none, executes no UPDATE
\* and leaves every row of the production store as it was.
C27_NothingStagedNoWrite ==
    [][ \A i \in DOMAIN queue \cap {call'.item} :
          ( /\ ~Unreconcilable(i)
            /\ \A seg \in DOMAIN call'.segment_scores :
                  \/ ColumnOf(i, seg) = None
                  \/ /\ call'.segment_scores[seg].suggestion = ""
                     /\ SegmentsOf(i, seg) = {}
            /\ update_production(i, call'.segment_scores, call'.reviewer_id, TRUE) )
          => /\ call'.pc = "done"
             /\ call'.outcome = "nothing_staged"
             /\ call'.result = << >>
             /\ prod' = prod
             /\ prod_updates' = prod_updates
      ]_vars

\* a reconcile found its row and ended with nothing staged
C27_Witness ==
    /\ call.pc = "done"
    /\ call.outcome = "nothing_staged"
    /\ DOMAIN call.original_fields # {}
    /\ DOMAIN call.segment_scores = {"S3", "S4"}

C29_WriteIsRecorded ==
    [][ ( execute_update(TRUE) /\ call'.outcome = "updated" )
        => \E k \in DOMAIN prod_updates' :
              /\ k \notin DOMAIN prod_updates
              /\ prod_updates'[k].original_data = call.original_fields
              /\ prod_updates'[k].updated_data = call.updated_fields
      ]_vars

\* C30: a ProductionUpdate is produced only when the write changes at
\* least one mapped field: for every record produced, some column of
\* updated_data has a value that differs from the value the production row
\* held before the update.
C30_RecordOnlyOnChange ==
    [][ ( /\ call.pc = "update"
          /\ execute_update(TRUE)
          /\ Len(call'.result) = 1 )
        => LET table == call'.result[1].target_table
               updated_data == call'.result[1].updated_data
           IN \E k \in RowsUnderKey(prod, table, call.lookup_values),
                 col \in DOMAIN updated_data :
                 prod[table][k][col] # updated_data[col]
      ]_vars

\* the columns the mapping of an item assigns to a segment
MappedColumns(item) ==
    LET sfm == INTENT_TABLE_MAPPING[item.intent].segment_field_mapping
    IN { sfm[seg] : seg \in DOMAIN sfm } \ {None}

\* the lookup columns of the mapping of an item
LookupColumns(item) ==
    LET fields == INTENT_TABLE_MAPPING[item.intent].lookup_fields
    IN { fields[n] : n \in DOMAIN fields }

\* C31: the write of a reconcile changes only columns that the intent's
\* mapping assigns to a segment (never a lookup column, never a column for
\* S4) and only in rows under the item's composite lookup key; every other
\* row and column of the production store is as it was.
C31_WriteStaysInMappedColumns ==
    [][ ( call.pc = "update" /\ call'.pc = "done" ) =>
          LET item == queue[call.item]
              table == INTENT_TABLE_MAPPING[item.intent].table
              key == LookupValues(item, INTENT_TABLE_MAPPING[item.intent])
          IN \A t \in DOMAIN prod :
                /\ Len(prod'[t]) = Len(prod[t])
                /\ \A k \in DOMAIN prod[t] :
                      LET changed == { f \in DOMAIN prod[t][k] :
                                         prod'[t][k][f] # prod[t][k][f] }
                      IN /\ DOMAIN prod'[t][k] = DOMAIN prod[t][k]
                         /\ changed # {} =>
                              /\ t = table
                              /\ k \in RowsUnderKey(prod, t, key)
                              /\ changed \subseteq MappedColumns(item)
                              /\ changed \cap LookupColumns(item) = {}
      ]_vars

\* an UPDATE changed the row under the key and left the row of another
\* pair as it was
C31_Witness ==
    /\ call.pc = "done"
    /\ call.outcome = "updated"
    /\ last.op = "update"
    /\ \E k \in DOMAIN last.overwritten :
          last.overwritten[k] # prod["public.document_ddi_pairs"][k]
    /\ \E k \in DOMAIN prod["public.document_ddi_pairs"] :
          prod["public.document_ddi_pairs"][k] = OtherRow

C40_OneRowModified ==
    [][ ( call.pc = "update" /\ call'.pc = "done" /\ call'.outcome = "updated" ) =>
          \A t \in DOMAIN prod :
              Cardinality({ k \in DOMAIN prod[t] : prod'[t][k] # prod[t][k] }) <= 1
      ]_vars

(***************************************************************************)
(* The review history (/api/my-reviews) and the average score it reports.  *)
(* Nothing validates segment_scores, so a stored map may hold any subset   *)
(* of the segments and an entry may lack its score.  The history starts    *)
(* from a reviewer who has submitted one review, whose map is any of       *)
(* these; with one review the ORDER BY of the handler has nothing to       *)
(* order.  A quotient of Python is kept as the fraction num/den, and the   *)
(* number round(x, 1) as its count of tenths.                              *)
(***************************************************************************)
MaxScore == 5

ScoreSegments == {"S1", "S2", "S3", "S4"}

ScoreEntries ==
    { [suggestion |-> ""] } \cup
    { [score |-> n, suggestion |-> ""] : n \in 1..MaxScore }

ScoreMaps == UNION { [D -> ScoreEntries] : D \in SUBSET ScoreSegments }

StatusFilters == {None, "submitted", "draft"}

InitScores ==
    /\ queue = [QueueFixture EXCEPT ![1].status = "submitted"]
    /\ \E segment_scores \in ScoreMaps :
          reviews = << NewReview(1, 1, [segment_scores |-> segment_scores,
                                        overall_notes |-> "n1"],
                                 "", "submitted", Now) >>
    /\ audit = << AuditEntry(1, 1, "submitted", "pending", "submitted") >>
    /\ sessions = << [reviewer_id |-> 1, session_start |-> Now, session_end |-> NULL,
                      reviews_completed |-> 1, reviews_flagged |-> 0,
                      reviews_drafted |-> 0, reviews_skipped |-> 0] >>
    /\ reviewers = [r \in Reviewers |->
                      [total_reviews_submitted |-> IF r = 1 THEN 1 ELSE 0,
                       total_reviews_flagged |-> 0,
                       total_drafts_saved |-> 0]]
    /\ rereq = << >>
    /\ prod_updates = << >>
    /\ prod \in ProdFixtures
    /\ cookies = { [user |-> 1, review_session_id |-> 1] }
    /\ shown = NothingShown
    /\ call = NoCall
    /\ txns = NoTxns
    /\ last = NoRequest

\* dict.get(key, default)
GetOr(d, key, default) == IF key \in DOMAIN d THEN d[key] ELSE default

\* sum(s.get('score', 0) for s in scores)
RECURSIVE SumScores(_, _)
SumScores(scores, keys) ==
    IF keys = {}
    THEN 0
    ELSE LET k == CHOOSE x \in keys : TRUE
         IN GetOr(scores[k], "score", 0) + SumScores(scores, keys \ {k})

\* a mean over the entries that carry a score only
avg_score_ScoredOnly(segment_scores) ==
    LET scored == { k \in DOMAIN segment_scores : "score" \in DOMAIN segment_scores[k] }
    IN IF scored = {}
       THEN [num |-> 0, den |-> 1]
       ELSE [num |-> SumScores(segment_scores, scored), den |-> Cardinality(scored)]

\* sum(...) / len(scores) if scores else 0
avg_score(segment_scores) ==
    IF DOMAIN segment_scores = {}
    THEN [num |-> 0, den |-> 1]
    ELSE [num |-> SumScores(segment_scores, DOMAIN segment_scores),
          den |-> Cardinality(DOMAIN segment_scores)]

\* round(x, 1) in tenths: to the nearest tenth, a tie to the even one
Round1(x) ==
    LET q == (10 * x.num) \div x.den
        r == (10 * x.num) % x.den
    IN IF 2 * r < x.den THEN q
       ELSE IF 2 * r > x.den THEN q + 1
       ELSE IF q % 2 = 0 THEN q ELSE q + 1

get_my_reviews(c, status_filter) ==
    /\ c \in cookies
    /\ LET selected == SelectSeq([k \in DOMAIN reviews |-> k],
                          LAMBDA k : /\ reviews[k].reviewer_id = c.user
                                     /\ status_filter # None =>
                                            reviews[k].status = status_filter)
       IN last' = [op |-> "my_reviews", reviewer |-> c.user,
                   sid |-> c.review_session_id, item |-> NULL,
                   err |-> "none", rid |-> NULL,
                   reviews_data |->
                      [n \in DOMAIN selected |->
                         [id |-> selected[n],
                          response_queue_id |-> reviews[selected[n]].response_queue_id,
                          status |-> reviews[selected[n]].status,
                          avg_score |-> Round1(avg_score(reviews[selected[n]].segment_scores)),
                          version |-> reviews[selected[n]].version,
                          is_current |-> reviews[selected[n]].is_current]]]
    /\ UNCHANGED <<queue, reviews, audit, sessions, reviewers, rereq,
                   prod_updates, prod, cookies, shown, call, txns>>

NextScores == \E c \in cookies, status_filter \in StatusFilters : get_my_reviews(c, status_filter)

SpecScores == InitScores /\ [][NextScores]_vars

\* the entries of a scores map that carry a score
ScoredEntries(segment_scores) ==
    { k \in DOMAIN segment_scores : "score" \in DOMAIN segment_scores[k] }

\* the sum of the scores a map carries
RECURSIVE ScoreTotal(_, _)
ScoreTotal(segment_scores, keys) ==
    IF keys = {}
    THEN 0
    ELSE LET k == CHOOSE x \in keys : TRUE
         IN segment_scores[k].score + ScoreTotal(segment_scores, keys \ {k})

\* C33: the average score of a Review is the sum of the scores of its
\* scores map divided by the number of entries of the map, and 0 when the
\* map is empty; the review history shows it to the nearest tenth.
C33_AverageScore ==
    /\ \A k \in DOMAIN reviews :
          LET segment_scores == reviews[k].segment_scores
              entries == Cardinality(DOMAIN segment_scores)
              total == ScoreTotal(segment_scores, ScoredEntries(segment_scores))
              avg == avg_score(segment_scores)
          IN IF entries = 0
             THEN avg.num = 0
             ELSE avg.num * entries = total * avg.den
    /\ last.op = "my_reviews" =>
          \A n \in DOMAIN last.reviews_data :
              LET segment_scores == reviews[last.reviews_data[n].id].segment_scores
                  entries == Cardinality(DOMAIN segment_scores)
                  total == ScoreTotal(segment_scores, ScoredEntries(segment_scores))
                  tenths == last.reviews_data[n].avg_score
              IN IF entries = 0
                 THEN tenths = 0
                 ELSE /\ 2 * (10 * total - tenths * entries) <= entries
                      /\ 2 * (tenths * entries - 10 * total) <= entries

\* the history shows 4.0 for the scores {S1: 5, S2: 3}
C33_Witness ==
    /\ last.op = "my_reviews"
    /\ \E n \in DOMAIN last.reviews_data :
          LET segment_scores == reviews[last.reviews_data[n].id].segment_scores
          IN /\ DOMAIN segment_scores = {"S1", "S2"}
             /\ GetOr(segment_scores["S1"], "score", 0) = 5
             /\ GetOr(segment_scores["S2"], "score", 0) = 3
             /\ last.reviews_data[n].avg_score = 40

\* C34: every audit entry written by save_draft, flag or submit records as
\* previous_status the status the queue item had immediately before the
\* operation and as new_status its status immediately after (a repeated
\* save_draft on an item already in draft records previous = draft).
C34_AuditRecordsActualStatus ==
    [][ (last'.op \in ReviewActions /\ last'.err = "none") =>
          /\ AuditAppended
          /\ audit'[Len(audit')].previous_status = queue[last'.item].status
          /\ audit'[Len(audit')].new_status = queue'[last'.item].status
      ]_vars

ReviewsWithStatus(r, st) ==
    { k \in DOMAIN reviews : reviews[k].reviewer_id = r /\ reviews[k].status = st }

\* C36: after any sequence of operations executed one at a time, each
\* reviewer's total_reviews_submitted is the number of Reviews with status
\* submitted by that reviewer and total_reviews_flagged the number of
\* Reviews with status flagged by that reviewer.
C36_TotalsMatchReviews ==
    \A r \in Reviewers :
        /\ reviewers[r].total_reviews_submitted =
              Cardinality(ReviewsWithStatus(r, "submitted"))
        /\ reviewers[r].total_reviews_flagged =
              Cardinality(ReviewsWithStatus(r, "flagged"))

\* a reviewer has submitted one review and flagged another item
C36_Witness ==
    \E r \in Reviewers :
        /\ reviewers[r].total_reviews_submitted = 1
        /\ reviewers[r].total_reviews_flagged = 1
        /\ ReviewsWithStatus(r, "submitted") # {}
        /\ ReviewsWithStatus(r, "flagged") # {}

\* C38: a Review can be reopened at most once: after a successful
\* request_rereview has set its is_current to false, a further
\* request_rereview on the same Review fails, creates no RereviewRequest
\* and leaves the status of the queue item as it is.
C38_ReopenedOnce ==
    [][ (last'.op = "request_rereview" /\ last'.err = "none") =>
          reviews[last'.rid].is_current
      ]_vars

\* C39: a queue item that is pending and has at least one Review also has
\* at least one approved RereviewRequest, so every pending item is in the
\* rows one of the two queries of next() selects for some reviewer.
C39_PendingItemsReachable ==
    \A i \in DOMAIN queue :
        queue[i].status = "pending" =>
            /\ (\E k \in DOMAIN reviews : reviews[k].response_queue_id = i) =>
                  \E q \in DOMAIN rereq :
                      /\ rereq[q].response_queue_id = i
                      /\ rereq[q].status = "approved"
            /\ \E r \in Reviewers :
                  i \in Reopened(queue[i].intent, r) \cup NeverReviewed(queue[i].intent)

\* a pending item that has a Review
C39_Witness ==
    \E i \in DOMAIN queue :
        /\ queue[i].status = "pending"
        /\ \E k \in DOMAIN reviews : reviews[k].response_queue_id = i

(***************************************************************************)
(* Two requests of one reviewer at the same time: /review/submit sent from *)
(* two tabs that share one Flask session, each in a transaction of its own *)
(* (PostgreSQL, READ COMMITTED).  A request reads the Reviewer row when    *)
(* flask-login loads current_user, inserts its Review and reads the        *)
(* ReviewSession row, and at its commit writes the counters back as the    *)
(* values it read plus one.  An INSERT of a key that another open          *)
(* transaction has inserted waits for that transaction.  Review ids are    *)
(* kept in the order of the commits.                                       *)
(***************************************************************************)
InitConcurrent ==
    /\ queue = QueueFixture
    /\ reviews = << >>
    /\ audit = << >>
    /\ sessions = << [reviewer_id |-> 1, session_start |-> Now, session_end |-> NULL,
                      reviews_completed |-> 0, reviews_flagged |-> 0,
                      reviews_drafted |-> 0, reviews_skipped |-> 0] >>
    /\ reviewers = [r \in Reviewers |->
                      [total_reviews_submitted |-> 0,
                       total_reviews_flagged |-> 0,
                       total_drafts_saved |-> 0]]
    /\ rereq = << >>
    /\ prod_updates = << >>
    /\ prod \in ProdFixtures
    /\ cookies = { [user |-> 1, review_session_id |-> 1] }
    /\ shown = NothingShown
    /\ call = NoCall
    /\ txns = NoTxns
    /\ last = NoRequest

\* the requests in progress
InFlight == Cardinality({ t \in Tabs : txns[t].pc # "idle" })

\* @login_required: flask-login loads current_user, the Reviewer row that
\* db.session.get(Reviewer, reviewer_id) later returns from the identity map
load_user(t, c) ==
    /\ c \in cookies
    /\ txns[t].pc = "idle"
    /\ Committed + InFlight < MaxOps
    /\ txns' = [txns EXCEPT ![t] =
                  [NoTxn EXCEPT !.pc = "loaded", !.user = c.user,
                                !.review_session_id = c.review_session_id,
                                !.reviewer_read = reviewers[c.user].total_reviews_submitted]]
    /\ UNCHANGED <<queue, reviews, audit, sessions, reviewers, rereq,
                   prod_updates, prod, cookies, shown, call, last>>

\* submit_review up to the counters: the INSERT of the Review at the flush
\* and the SELECT of the ReviewSession row
flush_review(t, i, inp, dbUp) ==
    LET r == txns[t].user
        sid == txns[t].review_session_id
        review == NewReview(i, r, inp, "", "submitted", Now)
        err == IF ~dbUp THEN "OperationalError"
               ELSE IF ~ReviewInsertOk(reviews, review) THEN "IntegrityError"
               ELSE "none"
    IN /\ txns[t].pc = "loaded"
       /\ \A u \in Tabs \ {t} :
             ~( txns[u].pc = "flushed" /\ txns[u].item = i /\ txns[u].user = r )
       /\ IF err = "none"
          THEN /\ txns' = [txns EXCEPT ![t].pc = "flushed", ![t].item = i, ![t].inp = inp,
                                       ![t].session_read =
                                           IF sid \in DOMAIN sessions
                                           THEN sessions[sid].reviews_completed
                                           ELSE NULL]
               /\ last' = last
          ELSE /\ txns' = [txns EXCEPT ![t] = NoTxn]
               /\ last' = Request("submit", [user |-> r, review_session_id |-> sid],
                                  i, err, NULL)
       /\ UNCHANGED <<queue, reviews, audit, sessions, reviewers, rereq,
                      prod_updates, prod, cookies, shown, call>>

\* the rest of submit_review: the counters raised in memory, the audit
\* entry and the commit, which writes the rows the request changed
commit_review(t, dbUp) ==
    LET r == txns[t].user
        sid == txns[t].review_session_id
        i == txns[t].item
        rid == Len(reviews) + 1
        review == NewReview(i, r, txns[t].inp, "", "submitted", Now)
        entry == AuditEntry(rid, r, "submitted", "pending", "submitted")
        err == IF ~dbUp THEN "OperationalError"
               ELSE IF ~AuditInsertOk(entry) THEN "IntegrityError"
               ELSE "none"
    IN /\ txns[t].pc = "flushed"
       /\ last' = Request("submit", [user |-> r, review_session_id |-> sid],
                          i, err, IF err = "none" THEN rid ELSE NULL)
       /\ txns' = [txns EXCEPT ![t] = NoTxn]
       /\ IF err = "none"
          THEN /\ reviews' = Append(reviews, review)
               /\ queue' = [queue EXCEPT ![i].status = "submitted"]
               /\ sessions' = IF sid \in DOMAIN sessions
                              THEN [sessions EXCEPT ![sid].reviews_completed =
                                                        txns[t].session_read + 1]
                              ELSE sessions
               /\ reviewers' = [reviewers EXCEPT ![r].total_reviews_submitted =
                                                     txns[t].reviewer_read + 1]
               /\ audit' = Append(audit, entry)
          ELSE UNCHANGED <<reviews, queue, sessions, reviewers, audit>>
       /\ UNCHANGED <<rereq, prod_updates, prod, cookies, shown, call>>

NextConcurrent ==
    \/ \E t \in Tabs, c \in cookies : load_user(t, c)
    \/ \E t \in Tabs, i \in Items, dbUp \in BOOLEAN :
         \E inp \in PayloadsWhen(dbUp) : flush_review(t, i, inp, dbUp)
    \/ \E t \in Tabs, dbUp \in BOOLEAN : commit_review(t, dbUp)

SpecConcurrent == InitConcurrent /\ [][NextConcurrent]_vars

\* C37: when two requests of the same reviewer run at the same time (two
\* submits on different items from two tabs sharing one session) no
\* increment is lost: once they have committed, total_reviews_submitted of
\* the reviewer and reviews_completed of the session have each grown by
\* one per committed submit.
C37_NoLostIncrement ==
    \A c \in cookies :
        /\ reviewers[c.user].total_reviews_submitted =
              Cardinality(ReviewsWithStatus(c.user, "submitted"))
        /\ sessions[c.review_session_id].reviews_completed =
              Cardinality(ReviewsWithStatus(c.user, "submitted"))

====
